---- MODULE Spec2Model ----
(***************************************************************************)
(* Source-history model of the music-video library scripts.                *)
(*                                                                         *)
(* One record of the library is modelled: its sidecar NFO file, its video  *)
(* file and the wall clock the tools stamp entries with.  The tools are    *)
(* the exporter (mvNfoExporter), the cleaner (mvNfoSourceCleaner) and the  *)
(* three batch drivers (mvOrganizer, mvReplacer, musicvideo_from_csv).     *)
(***************************************************************************)
EXTENDS Integers, Sequences, FiniteSets, TLC

VARIABLES
    nfo,      \* the NFO file on disk: [shape, sources]
    video,    \* TRUE iff the record's .mp4 file exists
    clock,    \* datetime.now(), a counter
    pass,     \* the last completed tool pass: its inputs, the state it started from, what it did
    tree      \* the library directory the renaming tool walks: [dirs, files]

vars == <<nfo, video, clock, pass, tree>>

(***************************************************************************)
(* Bounds                                                                  *)
(***************************************************************************)
MaxLen == 2          \* longest history drawn for the exporter
MaxCleanLen == 3     \* longest history drawn for the cleaner
MaxTs == 2           \* timestamps already on disk are 1..MaxTs
MaxClock == 3        \* the drivers stop stamping at this time

(***************************************************************************)
(* Text.  A string is a sequence of characters; "h" stands for the scheme  *)
(* and host of a YouTube URL ("https://www.youtube.com/watch?v="), the     *)
(* other letters for the characters that follow it.                        *)
(***************************************************************************)
Whitespace == {" "}

\* code point of a character, the order str comparison uses
Ord(c) ==
    CASE c = " " -> 32
      [] c = "h" -> 104
      [] c = "x" -> 120
      [] c = "y" -> 121
      [] OTHER   -> 122

RECURSIVE lstrip(_)
lstrip(s) ==
    IF s = <<>> THEN <<>>
    ELSE IF Head(s) \in Whitespace THEN lstrip(Tail(s))
    ELSE s

RECURSIVE rstrip(_)
rstrip(s) ==
    IF s = <<>> THEN <<>>
    ELSE IF s[Len(s)] \in Whitespace THEN rstrip(SubSeq(s, 1, Len(s) - 1))
    ELSE s

\* str.strip()
strip(s) == rstrip(lstrip(s))

\* a < b for str: lexicographic by code point, a proper prefix is smaller
RECURSIVE StrLess(_, _)
StrLess(a, b) ==
    IF b = <<>> THEN FALSE
    ELSE IF a = <<>> THEN TRUE
    ELSE IF Ord(Head(a)) # Ord(Head(b)) THEN Ord(Head(a)) < Ord(Head(b))
    ELSE StrLess(Tail(a), Tail(b))

U1 == <<"h", "x">>
U2 == <<"h", "y">>
U1Padded == <<" ", "h", "x">>
NoText == <<>>

(***************************************************************************)
(* A <url> element of <sources>.                                           *)
(*   text    : element text (NoText when the element has none)             *)
(*   ts      : the ts attribute, [kind, t]:                                *)
(*               "none"  no ts attribute (or ts="")                        *)
(*               "bad"   a ts fromisoformat() rejects                      *)
(*               "naive" ISO time without zone (datetime.now().isoformat())*)
(*               "utc"   ISO time with the Z suffix (strftime(...Z))       *)
(*   failed  : failed="true" present                                       *)
(*   search  : search="true" present                                       *)
(*   index   : <<>> when absent, <<k>> when index="k"                      *)
(*   channel : channel attribute present                                   *)
(***************************************************************************)
NoTs == [kind |-> "none", t |-> 0]
BadTs == [kind |-> "bad", t |-> 0]
NaiveTs(t) == [kind |-> "naive", t |-> t]
UtcTs(t) == [kind |-> "utc", t |-> t]

UrlElem(text, ts, failed, search, index, channel) ==
    [text |-> text, ts |-> ts, failed |-> failed, search |-> search,
     index |-> index, channel |-> channel]

\* the NFO file: shape is "absent", "nested" (<sources> inside <musicvideo>),
\* "sibling" (<musicvideo> and <sources> as two root elements) or "empty"
\* (a file of zero bytes)
NfoFile(shape, sources) == [shape |-> shape, sources |-> sources]
NoNfo == NfoFile("absent", <<>>)

\* ET.parse(nfo_path): a document with two root elements is not well-formed
ET_parse_ok(file) == file.shape = "nested"

\* no library directory is looked at
NoTree == [dirs |-> {}, files |-> {}]

NoPass ==
    [op |-> "none", pre |-> NoNfo, preVideo |-> FALSE, fields |-> TRUE, url |-> NoText,
     handed |-> <<>>, overwrite |-> FALSE, force |-> FALSE,
     no_search |-> FALSE, dry_run |-> FALSE, result |-> [raised |-> FALSE, url |-> NoText],
     was_modified |-> FALSE, sources_removed |-> 0, attributes_removed |-> 0,
     preTree |-> NoTree, order |-> <<>>, exit |-> [code |-> "none", at |-> 0],
     found |-> NoText, stat |-> "none", searched |-> FALSE,
     extra |-> 0, names |-> [tag_manager |-> <<>>, organizer |-> <<>>, csv |-> <<>>],
     writer |-> "none", pending |-> NoNfo,
     prev |-> [op |-> "none", dry_run |-> FALSE, sources_removed |-> 0,
               attributes_removed |-> 0]]

\* what a cleaner pass remembers of the cleaner pass right before it
Previous ==
    IF pass.op = "clean"
    THEN [op |-> pass.op, dry_run |-> pass.dry_run, sources_removed |-> pass.sources_removed,
          attributes_removed |-> pass.attributes_removed]
    ELSE [op |-> "none", dry_run |-> FALSE, sources_removed |-> 0, attributes_removed |-> 0]

(***************************************************************************)
(* mvNfoExporter.get_most_recent_successful_url                            *)
(***************************************************************************)
Max(S) == CHOOSE x \in S : \A y \in S : y <= x
Min(S) == CHOOSE x \in S : \A y \in S : x <= y

DatetimeMin == [aware |-> FALSE, t |-> 0]

\* datetime.fromisoformat(ts_str.replace('Z', '+00:00')), datetime.min when
\* the attribute is missing, empty or rejected
ParseTs(ts) ==
    IF ts.kind = "utc" THEN [aware |-> TRUE, t |-> ts.t]
    ELSE IF ts.kind = "naive" THEN [aware |-> FALSE, t |-> ts.t]
    ELSE DatetimeMin

\* mutation of IsSuccessful: the failed attribute is not looked at
IsSuccessful_IgnoresFailed(e) == strip(e.text) # <<>>

\* the entries the collection loop keeps
IsSuccessful(e) == ~e.failed /\ strip(e.text) # <<>>

\* successful_urls: (ts, url_text) of every element that is not failed and has text
RECURSIVE SuccessfulUrls(_)
SuccessfulUrls(sources) ==
    IF sources = <<>> THEN <<>>
    ELSE LET e == Head(sources) IN
         IF IsSuccessful(e)
         THEN <<[ts |-> ParseTs(e.ts), url |-> strip(e.text)]>> \o SuccessfulUrls(Tail(sources))
         ELSE SuccessfulUrls(Tail(sources))

\* a > b for the (ts, url_text) tuples of two datetimes of the same kind
TupleGreater(a, b) ==
    \/ a.ts.t > b.ts.t
    \/ a.ts.t = b.ts.t /\ StrLess(b.url, a.url)

\* list.sort() compares an offset-aware with an offset-naive datetime: TypeError
SortRaises(list) ==
    \E i, j \in 1..Len(list) : list[i].ts.aware # list[j].ts.aware

\* mutation of get_most_recent_successful_url: a stable sort on the timestamp alone,
\* so that among the latest entries the first in document order is returned
get_most_recent_successful_url_ByTsOnly(sources) ==
    LET successful_urls == SuccessfulUrls(sources) IN
    IF SortRaises(successful_urls) THEN [raised |-> TRUE, url |-> NoText]
    ELSE IF successful_urls = <<>> THEN [raised |-> FALSE, url |-> NoText]
    ELSE LET first == Min({i \in 1..Len(successful_urls) :
                             \A j \in 1..Len(successful_urls) :
                                 successful_urls[j].ts.t <= successful_urls[i].ts.t})
         IN [raised |-> FALSE, url |-> successful_urls[first].url]

get_most_recent_successful_url(sources) ==
    LET successful_urls == SuccessfulUrls(sources) IN
    IF SortRaises(successful_urls) THEN [raised |-> TRUE, url |-> NoText]
    ELSE IF successful_urls = <<>> THEN [raised |-> FALSE, url |-> NoText]
    ELSE LET first == CHOOSE i \in 1..Len(successful_urls) :
                         \A j \in 1..Len(successful_urls) :
                             ~TupleGreater(successful_urls[j], successful_urls[i])
         IN [raised |-> FALSE, url |-> successful_urls[first].url]

(***************************************************************************)
(* add_source_to_nfo (mvOrganizer, mvReplacer): append one stamped element *)
(***************************************************************************)
\* mutation of add_source_to_nfo: a URL the history already holds is not added again
add_source_to_nfo_Unique(sources, url, failed, search, now) ==
    IF \E i \in 1..Len(sources) : sources[i].text = url THEN sources
    ELSE Append(sources, UrlElem(url, NaiveTs(now), failed, search, <<>>, FALSE))

add_source_to_nfo(sources, url, failed, search, now) ==
    Append(sources, UrlElem(url, NaiveTs(now), failed, search, <<>>, FALSE))

(***************************************************************************)
(* Histories the exporter is run on                                        *)
(***************************************************************************)
SeqsUpTo(S, n) == UNION {[1..k -> S] : k \in 0..n}

ResolveTs == {NoTs, BadTs} \cup {NaiveTs(t) : t \in 1..MaxTs} \cup {UtcTs(t) : t \in 1..MaxTs}

ResolveEntries ==
    {UrlElem(text, ts, failed, FALSE, <<>>, FALSE) :
        text \in {U1, U2, U1Padded, NoText}, ts \in ResolveTs, failed \in BOOLEAN}

InitResolve ==
    /\ nfo \in {NfoFile("nested", h) : h \in SeqsUpTo(ResolveEntries, MaxLen)}
    /\ video = TRUE
    /\ clock = MaxTs + 1
    /\ tree = NoTree
    /\ pass = NoPass

\* mvNfoExporter.extract_nfo_data: the youtube_url column of the record
ExportPass ==
    /\ ET_parse_ok(nfo)
    /\ UNCHANGED tree
    /\ pass' = [NoPass EXCEPT !.op = "export", !.pre = nfo, !.preVideo = video,
                              !.result = get_most_recent_successful_url(nfo.sources)]
    /\ UNCHANGED <<nfo, video, clock>>

\* a driver records a failed attempt on url (add_source_to_nfo with failed=True, then write_nfo)
RecordFailed ==
    \E url \in {U1, U2}, search \in BOOLEAN :
        /\ ET_parse_ok(nfo)
        /\ Len(nfo.sources) <= MaxLen
        /\ nfo' = NfoFile("nested", add_source_to_nfo(nfo.sources, url, TRUE, search, clock))
        /\ clock' = clock + 1
        /\ UNCHANGED tree
        /\ pass' = [NoPass EXCEPT !.op = "record_failed", !.pre = nfo, !.preVideo = video,
                                  !.url = url]
        /\ UNCHANGED video

NextResolve == ExportPass \/ RecordFailed

SpecResolve == InitResolve /\ [][NextResolve]_vars

(***************************************************************************)
(* mvNfoSourceCleaner.clean_sources                                        *)
(***************************************************************************)

\* mutation of GroupKey: the text is not stripped
GroupKey_Raw(text) == text

\* the key of url_data: url_elem.text.strip()
GroupKey(text) == strip(text)

\* the positions the grouping loop visits: "if url_elem.text"
Grouped(sources) == {i \in 1..Len(sources) : sources[i].text # NoText}

\* url_data[url_text]: the positions grouped with position i
GroupOf(sources, i) ==
    {j \in Grouped(sources) : GroupKey(sources[j].text) = GroupKey(sources[i].text)}

\* bool(elem) of an ElementTree element: it has children; a <url> has none
ElementTruth(e) == FALSE

\* mutation of KeepElem: the first element of the group is kept
KeepElem_First(sources, elements) == Min(elements)

\* mutation of KeepElem: each class remembers its first element, not its last
KeepElem_FirstOfClass(sources, elements) ==
    LET failed == {j \in elements : sources[j].failed}
        search == {j \in elements : ~sources[j].failed /\ sources[j].search}
    IN IF failed # {} THEN Min(failed)
       ELSE IF search # {} THEN Min(search)
       ELSE Min(elements)

\* keep_elem of a group of duplicates: the loop leaves in failed_elem,
\* search_elem and other_elem the last element of each class
KeepElem(sources, elements) ==
    LET failed == {j \in elements : sources[j].failed}
        search == {j \in elements : ~sources[j].failed /\ sources[j].search}
        other  == {j \in elements : ~sources[j].failed /\ ~sources[j].search}
    IN IF failed # {} THEN Max(failed)
       ELSE IF search # {} THEN Max(search)
       ELSE IF other # {} /\ ElementTruth(sources[Max(other)]) THEN Max(other)
       ELSE Min(elements)

\* mutation of clean_attributes: only index is deleted
clean_attributes_KeepsChannel(e) == [e EXCEPT !.index = <<>>]

\* for attr in ['index', 'channel']: del attrib[attr]
clean_attributes(e) == [e EXCEPT !.index = <<>>, !.channel = FALSE]

\* mutation of KeptElem: the kept element of a group of duplicates keeps its attributes
KeptElem_DuplicateUncleaned(e, duplicates) ==
    IF duplicates THEN e ELSE clean_attributes(e)

\* the element left in the tree for a group (both branches clean its attributes)
KeptElem(e, duplicates) == clean_attributes(e)

\* the attributes deleted from an element
AttributesOn(e) == (IF e.index # <<>> THEN 1 ELSE 0) + (IF e.channel THEN 1 ELSE 0)

\* the positions left in <sources>: the ungrouped ones and each group's keep_elem
Remaining(sources) ==
    LET grouped == Grouped(sources) IN
    {i \in 1..Len(sources) :
        \/ i \notin grouped
        \/ LET elements == GroupOf(sources, i)
           IN Cardinality(elements) = 1 \/ KeepElem(sources, elements) = i}

\* the tree after the removals: out[i] is <<>> for a removed element
RECURSIVE Flatten(_, _)
Flatten(out, i) ==
    IF i > Len(out) THEN <<>> ELSE out[i] \o Flatten(out, i + 1)

\* (was_modified, sources_removed, attributes_removed) and the tree it leaves
clean_sources(sources) ==
    LET grouped == Grouped(sources)
        remaining == Remaining(sources)
        kept == [i \in 1..Len(sources) |->
                    IF i \notin remaining THEN <<>>
                    ELSE IF i \notin grouped THEN <<sources[i]>>
                    ELSE <<KeptElem(sources[i], Cardinality(GroupOf(sources, i)) > 1)>>]
        deleted == [i \in 1..Len(sources) |->
                    IF i \in remaining /\ i \in grouped
                    THEN AttributesOn(sources[i]) - AttributesOn(kept[i][1])
                    ELSE 0]
        removed == Cardinality((1..Len(sources)) \ remaining)
        attrs == IF sources = <<>> THEN 0
                 ELSE LET sum[i \in 1..Len(sources)] ==
                              deleted[i] + (IF i = 1 THEN 0 ELSE sum[i - 1])
                      IN sum[Len(sources)]
    IN [sources |-> Flatten(kept, 1),
        was_modified |-> removed > 0 \/ attrs > 0,
        sources_removed |-> removed,
        attributes_removed |-> attrs]

\* NfoSourceCleaner.process_nfo: parse, clean, write the file when modified
CleanPass ==
    \E dry_run \in BOOLEAN :
    \E r \in {IF ET_parse_ok(nfo) THEN clean_sources(nfo.sources)
               ELSE [sources |-> nfo.sources, was_modified |-> FALSE,
                     sources_removed |-> 0, attributes_removed |-> 0]} :
           /\ nfo' = IF r.was_modified /\ ~dry_run THEN NfoFile("nested", r.sources) ELSE nfo
           /\ UNCHANGED tree
           /\ pass' = [NoPass EXCEPT !.op = "clean", !.prev = Previous, !.pre = nfo,
                                     !.preVideo = video, !.dry_run = dry_run,
                                     !.was_modified = r.was_modified,
                                     !.sources_removed = r.sources_removed,
                                     !.attributes_removed = r.attributes_removed]
           /\ UNCHANGED <<video, clock>>

(***************************************************************************)
(* Histories the cleaner is run on.  Entry i is stamped i, so that every   *)
(* element of a history can be told from the others.                       *)
(***************************************************************************)
CleanShapes ==
    {[text |-> text, failed |-> failed, search |-> search] :
        text \in {U1, U1Padded, U2, NoText}, failed \in BOOLEAN, search \in BOOLEAN}

\* the first `indexed` elements carry index and channel (an earlier
\* write_kodi_nfo numbered them), the elements appended since carry neither
CleanHistory(shapes, indexed) ==
    [i \in 1..Len(shapes) |->
        UrlElem(shapes[i].text, NaiveTs(i), shapes[i].failed, shapes[i].search,
                IF i <= indexed THEN <<i - 1>> ELSE <<>>, i <= indexed)]

InitClean ==
    /\ nfo \in {NfoFile("nested", CleanHistory(s, k)) :
                    s \in SeqsUpTo(CleanShapes, MaxCleanLen), k \in 0..MaxCleanLen}
    /\ video = TRUE
    /\ clock = MaxCleanLen + 1
    /\ tree = NoTree
    /\ pass = NoPass

NextClean == CleanPass

SpecClean == InitClean /\ [][NextClean]_vars

(***************************************************************************)
(* The batch drivers.  A pass is one call of the driver's per-record       *)
(* function; the download and search collaborators answer                  *)
(* nondeterministically.  handed lists, in order, the URLs the download    *)
(* collaborator (the yt-dlp subprocess) was run on, each with its outcome. *)
(***************************************************************************)
Invalid == <<"x">>

\* the youtube_url column of a row, stripped
RowUrls == {NoText, Invalid, U1, U2}

\* the rows of a CSV: fields is TRUE when the row has an artist and a title,
\* channel when it has a youtube_channel
Rows ==
    {[fields |-> TRUE, url |-> u, channel |-> (u = U2)] : u \in RowUrls}
        \cup {[fields |-> FALSE, url |-> U1, channel |-> FALSE]}

\* what search_youtube / yt_dlp_search_url return: a watch URL or nothing
SearchResults == {NoText, U1, U2}

\* mvOrganizer / mvReplacer is_valid_youtube_url: the netloc is a YouTube host
is_valid_youtube_url(url) == url # NoText /\ Head(url) = "h"

\* musicvideo_from_csv url_re: ^https?://[^\s]+$
url_re_match(url) ==
    /\ url # NoText
    /\ Head(url) = "h"
    /\ \A i \in 1..Len(url) : url[i] \notin Whitespace

\* mvOrganizer.read_existing_nfo: the root element, or None when the file
\* is missing or does not parse
read_existing_nfo(file) ==
    IF ET_parse_ok(file) THEN [found |-> TRUE, sources |-> file.sources]
    ELSE [found |-> FALSE, sources |-> <<>>]

\* mvOrganizer / mvReplacer get_existing_sources: the text of every <url> that has text
get_existing_sources(sources) ==
    {sources[i].text : i \in {j \in 1..Len(sources) : sources[j].text # NoText}}

\* musicvideo_from_csv.get_prior_urls: the stripped, non-empty texts; the
\* empty set when the file is missing or does not parse
get_prior_urls(file) ==
    IF ET_parse_ok(file)
    THEN {strip(file.sources[i].text) : i \in 1..Len(file.sources)} \ {NoText}
    ELSE {}

\* mutation of ShouldRedownload: the overwrite flag is not looked at
ShouldRedownload_IgnoresOverwrite(url, existing_sources, overwrite) ==
    url \notin existing_sources

\* mvOrganizer.process_video, video exists and NFO read: "if youtube_url
\* not in existing_sources and self.overwrite"
ShouldRedownload(url, existing_sources, overwrite) ==
    url \notin existing_sources /\ overwrite

Attempt(url, ok) == [url |-> url, ok |-> ok]

Outcome(file, vid, handed, stamps) ==
    [nfo |-> file, video |-> vid, handed |-> handed, stamps |-> stamps, searched |-> FALSE]

\* an outcome, and whether the search collaborator (search_youtube,
\* yt_dlp_search_url) was called on the way to it
Searched(out, invoked) == [out EXCEPT !.searched = invoked]

\* mvOrganizer.process_video, the force_download branch
OrganizerForce(file, vid, url, no_search, found, ok1, ok2, now) ==
    LET existing == read_existing_nfo(file)
        existing_sources == get_existing_sources(existing.sources)
        first == is_valid_youtube_url(url)
        ok_first == first /\ ok1
        sources1 == IF first /\ url \notin existing_sources
                    THEN add_source_to_nfo(existing.sources, url, ~ok_first, FALSE, now)
                    ELSE existing.sources
        second == ~ok_first /\ url = NoText /\ ~no_search /\ found # NoText
        ok_second == second /\ ok2
        sources2 == IF second /\ found \notin existing_sources
                    THEN add_source_to_nfo(sources1, found, ~ok_second, TRUE, now + 1)
                    ELSE sources1
    IN Searched(Outcome(NfoFile("nested", sources2), vid \/ ok_first \/ ok_second,
                        (IF first THEN <<Attempt(url, ok1)>> ELSE <<>>)
                            \o (IF second THEN <<Attempt(found, ok2)>> ELSE <<>>),
                        IF second THEN 2 ELSE 1),
                ~ok_first /\ url = NoText /\ ~no_search)

\* mvOrganizer.process_video, the "elif video_exists" branch
OrganizerExisting(file, vid, url, overwrite, ok1, now) ==
    LET existing == read_existing_nfo(file) IN
    IF ~existing.found
    THEN \* "Creating missing NFO file"
         Outcome(NfoFile("nested",
                         IF is_valid_youtube_url(url)
                         THEN add_source_to_nfo(<<>>, url, FALSE, FALSE, now)
                         ELSE <<>>),
                 vid, <<>>, 1)
    ELSE IF /\ is_valid_youtube_url(url)
            /\ ShouldRedownload(url, get_existing_sources(existing.sources), overwrite)
    THEN Outcome(NfoFile("nested", add_source_to_nfo(existing.sources, url, ~ok1, FALSE, now)),
                 vid \/ ok1, <<Attempt(url, ok1)>>, 1)
    ELSE Outcome(file, vid, <<>>, 0)

\* mutation of OrganizerNew: the search is run whatever no_search says
OrganizerNew_IgnoresNoSearch(file, vid, url, no_search, found, ok1, ok2, now) ==
    LET first == is_valid_youtube_url(url)
        ok_first == first /\ ok1
        sources1 == IF first THEN add_source_to_nfo(<<>>, url, ~ok_first, FALSE, now) ELSE <<>>
        second == ~ok_first /\ found # NoText
        ok_second == second /\ ok2
        sources2 == IF second THEN add_source_to_nfo(sources1, found, ~ok_second, TRUE, now + 1)
                    ELSE sources1
    IN Searched(Outcome(NfoFile("nested", sources2), ok_first \/ ok_second,
                        (IF first THEN <<Attempt(url, ok1)>> ELSE <<>>)
                            \o (IF second THEN <<Attempt(found, ok2)>> ELSE <<>>),
                        IF second THEN 2 ELSE 1),
                ~ok_first)

\* mvOrganizer.process_video, the final branch: the video does not exist
OrganizerNew(file, vid, url, no_search, found, ok1, ok2, now) ==
    LET first == is_valid_youtube_url(url)
        ok_first == first /\ ok1
        sources1 == IF first THEN add_source_to_nfo(<<>>, url, ~ok_first, FALSE, now) ELSE <<>>
        second == ~ok_first /\ ~no_search /\ found # NoText
        ok_second == second /\ ok2
        sources2 == IF second THEN add_source_to_nfo(sources1, found, ~ok_second, TRUE, now + 1)
                    ELSE sources1
    IN Searched(Outcome(NfoFile("nested", sources2), ok_first \/ ok_second,
                        (IF first THEN <<Attempt(url, ok1)>> ELSE <<>>)
                            \o (IF second THEN <<Attempt(found, ok2)>> ELSE <<>>),
                        IF second THEN 2 ELSE 1),
                ~ok_first /\ ~no_search)

\* mutation of process_video: the required fields are not validated
process_video_NoFieldCheck(file, vid, fields, url, overwrite, no_search, force, found, ok1, ok2, now) ==
    IF force THEN OrganizerForce(file, vid, url, no_search, found, ok1, ok2, now)
    ELSE IF vid THEN OrganizerExisting(file, vid, url, overwrite, ok1, now)
    ELSE OrganizerNew(file, vid, url, no_search, found, ok1, ok2, now)

\* mvOrganizer.process_video
process_video(file, vid, fields, url, overwrite, no_search, force, found, ok1, ok2, now) ==
    IF ~fields THEN Outcome(file, vid, <<>>, 0)
    ELSE IF force THEN OrganizerForce(file, vid, url, no_search, found, ok1, ok2, now)
    ELSE IF vid THEN OrganizerExisting(file, vid, url, overwrite, ok1, now)
    ELSE OrganizerNew(file, vid, url, no_search, found, ok1, ok2, now)

OrganizerPass ==
    \E overwrite, no_search, force, ok1, ok2 \in BOOLEAN :
    \E row \in Rows, found \in SearchResults :
    \E out \in {process_video(nfo, video, row.fields, row.url, overwrite, no_search, force,
                                found, ok1, ok2, clock)} :
           /\ clock + out.stamps <= MaxClock
           /\ nfo' = out.nfo
           /\ video' = out.video
           /\ clock' = clock + out.stamps
           /\ UNCHANGED tree
           /\ pass' = [NoPass EXCEPT !.op = "organizer", !.pre = nfo,
                                     !.preVideo = video, !.fields = row.fields, !.url = row.url,
                                     !.handed = out.handed, !.overwrite = overwrite,
                                     !.force = force, !.no_search = no_search,
                                     !.searched = out.searched]

\* an outcome and the counter of self.stats it adds to
Counted(out, stat) ==
    [nfo |-> out.nfo, video |-> out.video, handed |-> out.handed, stamps |-> out.stamps,
     stat |-> stat]

\* mvReplacer.process_nfo.  In a dry run download_video fetches nothing and
\* reports success, and write_nfo writes nothing
process_nfo(file, vid, fields, dry_run, found, ok, now) ==
    LET existing_sources == get_existing_sources(file.sources) IN
    IF file.shape = "absent" \/ ~ET_parse_ok(file) \/ ~fields
    THEN Counted(Outcome(file, vid, <<>>, 0), "failed")
    ELSE IF found = NoText \/ found \in existing_sources
    THEN Counted(Outcome(file, vid, <<>>, 0), "skipped")
    ELSE IF dry_run THEN Counted(Outcome(file, vid, <<>>, 0), "replaced")
    ELSE Counted(Outcome(NfoFile("nested",
                                 add_source_to_nfo(file.sources, found, ~ok, TRUE, now)),
                         vid \/ ok, <<Attempt(found, ok)>>, 1),
                 IF ok THEN "replaced" ELSE "failed")

ReplacerPass ==
    \E fields, dry_run, ok \in BOOLEAN :
    \E found \in SearchResults :
    \E out \in {process_nfo(nfo, video, fields, dry_run, found, ok, clock)} :
           /\ clock + out.stamps <= MaxClock
           /\ nfo' = out.nfo
           /\ video' = out.video
           /\ clock' = clock + out.stamps
           /\ UNCHANGED tree
           /\ pass' = [NoPass EXCEPT !.op = "replacer", !.pre = nfo,
                                     !.preVideo = video, !.fields = fields,
                                     !.dry_run = dry_run, !.found = found,
                                     !.stat = out.stat,
                                     !.handed = out.handed]

\* musicvideo_from_csv.write_kodi_nfo: the <sources> it writes.  The entries
\* read back from the file keep their attributes, every entry is numbered,
\* the row's URL is appended when the file read back does not hold it; the
\* document written has <musicvideo> and <sources> as two root elements
write_kodi_nfo(file, youtube_url, youtube_channel, extra_sources, now) ==
    LET old == IF ET_parse_ok(file) THEN file.sources ELSE <<>>
        read == SelectSeq(old, LAMBDA e : strip(e.text) # NoText)
        prior_sources == [i \in 1..Len(read) |-> [read[i] EXCEPT !.text = strip(read[i].text)]]
        prior_urls == {prior_sources[i].text : i \in 1..Len(prior_sources)}
        current == IF youtube_url # NoText /\ youtube_url \notin prior_urls
                   THEN <<UrlElem(youtube_url, UtcTs(now), FALSE, FALSE, <<>>, youtube_channel)>>
                   ELSE <<>>
        all == prior_sources \o extra_sources \o current
    IN NfoFile("sibling", [i \in 1..Len(all) |-> [all[i] EXCEPT !.index = <<i - 1>>]])

\* mutation of yt_dlp_download: the MP4 that exists is not looked at
yt_dlp_download_NoExistsCheck(file, vid, overwrite, ok) ==
    [fetched |-> TRUE, success |-> ok \/ vid,
     nfo |-> IF overwrite THEN NoNfo ELSE file,
     video |-> ok \/ vid]

\* musicvideo_from_csv.yt_dlp_download: nothing is fetched when the MP4
\* exists and overwrite is off; with overwrite every file named
\* <title>.* is removed first, the NFO among them
yt_dlp_download(file, vid, overwrite, ok) ==
    IF vid /\ ~overwrite
    THEN [fetched |-> FALSE, success |-> TRUE, nfo |-> file, video |-> TRUE]
    ELSE [fetched |-> TRUE, success |-> ok,
          nfo |-> IF overwrite THEN NoNfo ELSE file,
          video |-> ok]

\* extra_sources of the search branch of process_row
SearchExtraSources(youtube, search_url, now) ==
    <<UrlElem(youtube, UtcTs(now), TRUE, FALSE, <<>>, FALSE),
      UrlElem(search_url, UtcTs(now), FALSE, TRUE, <<>>, FALSE)>>

\* musicvideo_from_csv.process_row.  A row without artist or title is not
\* rejected: split_artists and normalize_name name its record "Unknown
\* Artist" / "unknown" and the row is processed like any other
process_row(file, vid, youtube, youtube_channel, overwrite, no_search, found, ok1, ok2, now) ==
    IF ~url_re_match(youtube) THEN Outcome(file, vid, <<>>, 0)
    ELSE IF vid /\ file.shape = "absent"
    THEN Outcome(write_kodi_nfo(file, youtube, youtube_channel, <<>>, now), vid, <<>>, 1)
    ELSE IF vid /\ youtube \in get_prior_urls(file) THEN Outcome(file, vid, <<>>, 0)
    ELSE LET d1 == yt_dlp_download(file, vid, overwrite, ok1)
             h1 == IF d1.fetched THEN <<Attempt(youtube, ok1)>> ELSE <<>>
         IN IF d1.success
            THEN Outcome(write_kodi_nfo(d1.nfo, youtube, youtube_channel, <<>>, now),
                         d1.video, h1, 1)
            ELSE IF vid \/ no_search \/ found = NoText \/ found = youtube
            THEN Searched(Outcome(d1.nfo, d1.video, h1, 1), ~vid /\ ~no_search)
            ELSE LET d2 == yt_dlp_download(d1.nfo, d1.video, overwrite, ok2)
                     h2 == h1 \o (IF d2.fetched THEN <<Attempt(found, ok2)>> ELSE <<>>)
                 IN IF d2.success
                    THEN Searched(Outcome(write_kodi_nfo(d2.nfo, youtube, youtube_channel,
                                                         SearchExtraSources(youtube, found, now),
                                                         now),
                                          d2.video, h2, 1), TRUE)
                    ELSE Searched(Outcome(d2.nfo, d2.video, h2, 1), TRUE)

CsvPass ==
    \E overwrite, no_search, ok1, ok2 \in BOOLEAN :
    \E row \in Rows, found \in SearchResults :
        LET youtube == row.url
            youtube_channel == row.channel
        IN \E out \in {process_row(nfo, video, youtube, youtube_channel, overwrite, no_search,
                                   found, ok1, ok2, clock)} :
           /\ clock + out.stamps <= MaxClock
           /\ nfo' = out.nfo
           /\ video' = out.video
           /\ clock' = clock + out.stamps
           /\ UNCHANGED tree
           /\ pass' = [NoPass EXCEPT !.op = "csv", !.pre = nfo,
                                     !.preVideo = video, !.fields = row.fields,
                                     !.url = youtube,
                                     !.handed = out.handed, !.overwrite = overwrite,
                                     !.no_search = no_search, !.searched = out.searched]

(***************************************************************************)
(* The library: one record, worked on by the drivers and the cleaner.  It  *)
(* starts without files, or with a video and a hand-written NFO of the     *)
(* oldest layout (a bare URL, no attributes).                              *)
(***************************************************************************)
LegacyNfo == NfoFile("nested", <<UrlElem(U1Padded, NoTs, FALSE, FALSE, <<>>, FALSE)>>)

Init ==
    /\ nfo \in {NoNfo, LegacyNfo}
    /\ video = (nfo # NoNfo)
    /\ clock = 1
    /\ tree = NoTree
    /\ pass = NoPass

Next == OrganizerPass \/ ReplacerPass \/ CsvPass \/ CleanPass

Spec == Init /\ [][Next]_vars

(***************************************************************************)
(* Appending to a history: add_source_to_nfo followed by write_nfo          *)
(* (mvOrganizer, mvReplacer) and write_kodi_nfo (musicvideo_from_csv), run  *)
(* on histories that hold entries of every writer.                         *)
(***************************************************************************)
MaxAppendLen == 2    \* longest history drawn for an append

InitAppend ==
    /\ nfo \in {NfoFile(shape, CleanHistory(s, k)) :
                    shape \in {"nested", "sibling"},
                    s \in SeqsUpTo(CleanShapes, MaxAppendLen), k \in 0..MaxAppendLen}
    /\ video = TRUE
    /\ clock = MaxAppendLen + 1
    /\ tree = NoTree
    /\ pass = NoPass

\* add_source_to_nfo on the root that was read, then write_nfo
AppendSource ==
    \E url \in {U1, U2}, failed, search \in BOOLEAN :
        /\ ET_parse_ok(nfo)
        /\ clock <= MaxAppendLen + 2
        /\ nfo' = NfoFile("nested", add_source_to_nfo(nfo.sources, url, failed, search, clock))
        /\ clock' = clock + 1
        /\ UNCHANGED tree
        /\ pass' = [NoPass EXCEPT !.op = "append", !.pre = nfo, !.preVideo = video,
                                  !.url = url]
        /\ UNCHANGED video

\* write_kodi_nfo on the file, with or without the extra sources of a search
KodiWrite ==
    \E youtube \in {U1, U2}, found \in {NoText, U1, U2}, youtube_channel \in BOOLEAN :
        LET extra_sources == IF found = NoText THEN <<>>
                             ELSE SearchExtraSources(youtube, found, clock)
        IN /\ clock <= MaxAppendLen + 2
           /\ nfo' = write_kodi_nfo(nfo, youtube, youtube_channel, extra_sources, clock)
           /\ clock' = clock + 1
           /\ UNCHANGED tree
           /\ pass' = [NoPass EXCEPT !.op = "kodi_write", !.pre = nfo, !.preVideo = video,
                                     !.url = youtube, !.extra = Len(extra_sources)]
           /\ UNCHANGED video

NextAppend == AppendSource \/ KodiWrite

SpecAppend == InitAppend /\ [][NextAppend]_vars

(***************************************************************************)
(* Writing the NFO file, step by step.  Every writer opens the target path *)
(* itself for writing, which truncates it, writes the document and closes  *)
(* the file; the process can be interrupted between any two steps.         *)
(***************************************************************************)
MaxWriteLen == 1     \* longest history drawn for a write

InitWrite ==
    /\ nfo \in {NoNfo} \cup {NfoFile("nested", CleanHistory(s, k)) :
                                s \in SeqsUpTo(CleanShapes, MaxWriteLen), k \in 0..MaxWriteLen}
    /\ video = TRUE
    /\ clock = MaxWriteLen + 1
    /\ tree = NoTree
    /\ pass = NoPass

\* a file is open for writing
Writing == pass.op \in {"open", "root_written"}

\* open(nfo_path, 'w') / nfo_path.open("wb"): the file is truncated, the
\* document to write is in memory
OpenForWrite(writer, doc) ==
    /\ ~Writing
    /\ clock <= MaxWriteLen + 2
    /\ nfo' = NfoFile("empty", <<>>)
    /\ clock' = clock + 1
    /\ UNCHANGED tree
    /\ pass' = [NoPass EXCEPT !.op = "open", !.writer = writer, !.pre = nfo,
                              !.preVideo = video, !.pending = doc]
    /\ UNCHANGED video

\* mvOrganizer / mvReplacer: add_source_to_nfo on the root read, then write_nfo
OrganizerOpen ==
    \E url \in {U1, U2}, failed, search \in BOOLEAN :
        /\ ET_parse_ok(nfo)
        /\ OpenForWrite("organizer",
                        NfoFile("nested",
                                add_source_to_nfo(nfo.sources, url, failed, search, clock)))

\* mvNfoSourceCleaner.process_nfo: write_nfo of the cleaned tree
CleanerOpen ==
    /\ ET_parse_ok(nfo)
    /\ clean_sources(nfo.sources).was_modified
    /\ OpenForWrite("cleaner", NfoFile("nested", clean_sources(nfo.sources).sources))

\* musicvideo_from_csv.write_kodi_nfo: the file is opened after the old one was read
KodiOpen ==
    \E youtube \in {U1, U2}, youtube_channel \in BOOLEAN :
        OpenForWrite("csv", write_kodi_nfo(nfo, youtube, youtube_channel, <<>>, clock))

\* write_kodi_nfo writes the declaration and the <musicvideo> element, the
\* <sources> element is still to come
KodiWriteRoot ==
    /\ pass.op = "open"
    /\ pass.writer = "csv"
    /\ nfo' = NfoFile("nested", <<>>)
    /\ UNCHANGED tree
    /\ pass' = [pass EXCEPT !.op = "root_written"]
    /\ UNCHANGED <<video, clock>>

\* the rest of the document is written and the file closed
CloseFile ==
    /\ Writing
    /\ nfo' = pass.pending
    /\ UNCHANGED tree
    /\ pass' = [pass EXCEPT !.op = "written"]
    /\ UNCHANGED <<video, clock>>

\* the process is interrupted while the file is open
Interrupt ==
    /\ Writing
    /\ UNCHANGED tree
    /\ pass' = [pass EXCEPT !.op = "interrupted"]
    /\ UNCHANGED <<nfo, video, clock>>

NextWrite ==
    OrganizerOpen \/ CleanerOpen \/ KodiOpen \/ KodiWriteRoot \/ CloseFile \/ Interrupt

SpecWrite == InitWrite /\ [][NextWrite]_vars

(***************************************************************************)
(* convert_nfo_format: the migration of documents that hold <sources> as a *)
(* sibling of <musicvideo>.  Here the NFO file also carries the scalar     *)
(* children of <musicvideo>, in document order, and whether the document   *)
(* is indented.                                                            *)
(***************************************************************************)
MaxConvertLen == 2   \* longest history drawn for a conversion

Document(shape, sources, scalars, indented) ==
    [shape |-> shape, sources |-> sources, scalars |-> scalars, indented |-> indented]

ScalarChild(tag, text) == [tag |-> tag, text |-> text]

\* the scalar children of <musicvideo>: add_text writes title, album and
\* studio empty or not, director and genre only when not empty
ScalarDocuments ==
    {<<ScalarChild("title", <<"x">>)>>,
     <<ScalarChild("title", <<"x">>), ScalarChild("studio", NoText)>>,
     <<ScalarChild("title", <<"x">>), ScalarChild("album", NoText),
       ScalarChild("studio", <<"y">>)>>,
     <<ScalarChild("title", NoText), ScalarChild("studio", <<" ">>),
       ScalarChild("genre", <<"y">>)>>}

\* is_empty_element: no text, or only whitespace
is_empty_element(element) == element.text = NoText \/ strip(element.text) = NoText

\* the tags convert_nfo_file removes when empty
Removable(element) == element.tag \in {"director", "studio", "genre"} /\ is_empty_element(element)

\* re.findall(r'<sources>.*?</sources>'): an element without children is
\* serialised as <sources />, which the pattern does not match
sources_matches(file) == file.shape \in {"nested", "sibling"} /\ file.sources # <<>>

\* needs_conversion
needs_conversion(file) ==
    IF file.shape = "absent" THEN FALSE
    ELSE IF sources_matches(file) THEN TRUE
    ELSE IF ~ET_parse_ok(file) THEN FALSE
    ELSE IF \E i \in 1..Len(file.scalars) : Removable(file.scalars[i]) THEN TRUE
    ELSE ~file.indented

\* mutation of convert_nfo_file: the <sources> fragment of a two-root
\* document is not spliced in
convert_nfo_file_NoSplice(file) ==
    IF file.shape \notin {"nested", "sibling"} THEN file
    ELSE Document("nested", IF ET_parse_ok(file) THEN file.sources ELSE <<>>,
                  SelectSeq(file.scalars, LAMBDA e : ~Removable(e)), TRUE)

\* convert_nfo_file: the document it leaves on disk
convert_nfo_file(file) ==
    IF file.shape \notin {"nested", "sibling"} THEN file
    ELSE LET sources_element == IF ET_parse_ok(file) \/ sources_matches(file)
                                THEN file.sources ELSE <<>>
         IN Document("nested", sources_element,
                     SelectSeq(file.scalars, LAMBDA e : ~Removable(e)), TRUE)

\* the documents on disk: written by write_kodi_nfo (two roots, one line,
\* at least one entry) or already nested
InitConvert ==
    /\ nfo \in {Document(shape, CleanHistory(s, k), scalars, shape = "nested") :
                    shape \in {"nested", "sibling"},
                    s \in SeqsUpTo(CleanShapes, MaxConvertLen) \ {<<>>},
                    k \in {0, MaxConvertLen},
                    scalars \in ScalarDocuments}
    /\ video = TRUE
    /\ clock = 1
    /\ tree = NoTree
    /\ pass = NoPass

\* convert_nfo_format.main, for one file
ConvertPass ==
    \E dry_run \in BOOLEAN :
        LET convert == needs_conversion(nfo) /\ ~dry_run IN
        /\ nfo' = IF convert THEN convert_nfo_file(nfo) ELSE nfo
        /\ UNCHANGED tree
        /\ pass' = [NoPass EXCEPT !.op = "convert", !.pre = nfo, !.preVideo = video,
                                  !.dry_run = dry_run, !.was_modified = convert]
        /\ UNCHANGED <<video, clock>>

NextConvert == ConvertPass

SpecConvert == InitConvert /\ [][NextConvert]_vars

(***************************************************************************)
(* convert_nfo_sources: the migration of documents that keep their URLs in *)
(* a <source> container.  The document carries its root element: the       *)
(* <musicvideo> element itself, as every other tool reads and writes it,   *)
(* or an element that wraps <musicvideo>.                                  *)
(***************************************************************************)
MaxLegacyLen == 3    \* most <url> children drawn for a <source> container

LegacyDocument(root, shape, sources) == [root |-> root, shape |-> shape, sources |-> sources]

\* the <url> children of <source>: bare, or stamped by an earlier writer
LegacyEntries ==
    {UrlElem(text, ts, FALSE, FALSE, <<>>, FALSE) :
        text \in {U1, U2, U1Padded, NoText},
        ts \in {NoTs} \cup {NaiveTs(t) : t \in 1..MaxTs}}

\* the order of the ts attribute strings: '' before every ISO time
TsRank(ts) == IF ts.kind = "none" THEN 0 ELSE ts.t

\* url_map after the loop: one element per stripped text, in the order the
\* texts were first met; a later element replaces the one kept when its ts
\* is greater
RECURSIVE url_map(_, _)
url_map(children, map) ==
    IF children = <<>> THEN map
    ELSE LET child == Head(children)
             url_text == strip(child.text)
             hit == {i \in 1..Len(map) : strip(map[i].text) = url_text}
         IN IF hit = {} THEN url_map(Tail(children), Append(map, child))
            ELSE LET i == CHOOSE i \in hit : TRUE IN
                 IF TsRank(child.ts) > TsRank(map[i].ts)
                 THEN url_map(Tail(children), [map EXCEPT ![i] = child])
                 ELSE url_map(Tail(children), map)

\* sorted(url_map.values(), key=ts): ascending and stable
RECURSIVE SortedByTs(_, _)
SortedByTs(elems, rank) ==
    IF rank > MaxTs THEN <<>>
    ELSE SelectSeq(elems, LAMBDA e : TsRank(e.ts) = rank) \o SortedByTs(elems, rank + 1)

\* move_source_to_sources: mv = root.find('musicvideo') is a child of the
\* root, None when <musicvideo> is the root itself
move_source_to_sources(doc) ==
    IF doc.root # "wrapper" \/ doc.shape # "legacy" \/ doc.sources = <<>>
    THEN [changed |-> FALSE, doc |-> doc]
    ELSE LET url_elems_sorted == SortedByTs(url_map(doc.sources, <<>>), 0)
         IN [changed |-> TRUE,
             doc |-> LegacyDocument(doc.root, "nested",
                         [i \in 1..Len(url_elems_sorted) |->
                             [url_elems_sorted[i] EXCEPT !.index = <<i - 1>>]])]

InitMigrate ==
    /\ nfo \in {LegacyDocument(root, "legacy", h) :
                    root \in {"musicvideo", "wrapper"},
                    h \in SeqsUpTo(LegacyEntries, MaxLegacyLen)}
    /\ video = TRUE
    /\ clock = 1
    /\ tree = NoTree
    /\ pass = NoPass

\* convert_nfo_sources.process_nfo_file: the file is written when changed
MigratePass ==
    LET r == move_source_to_sources(nfo) IN
    /\ nfo' = r.doc
    /\ UNCHANGED tree
    /\ pass' = [NoPass EXCEPT !.op = "migrate", !.pre = nfo, !.preVideo = video,
                              !.was_modified = r.changed]
    /\ UNCHANGED <<video, clock>>

NextMigrate == MigratePass

SpecMigrate == InitMigrate /\ [][NextMigrate]_vars

(***************************************************************************)
(* The name normalizers, which turn an artist or a title into a directory  *)
(* or file name.  The characters drawn are an upper-case letter, a         *)
(* lower-case letter, the space, the tab, the underscore and the hyphen.   *)
(***************************************************************************)
MaxNameLen == 3      \* longest artist text drawn
max_len == 150       \* normalize_name(name, max_len=150)

NameChars == {"A", "b", " ", "\t", "_", "-"}

\* [a-z0-9] among the characters drawn, after lower()
AsciiAlnum == {"a", "b"}

\* \s among the characters drawn
SpaceChars == {" ", "\t"}

Unknown == <<"u", "n", "k", "n", "o", "w", "n">>

\* str.lower()
lower(s) == [i \in 1..Len(s) |-> IF s[i] = "A" THEN "a" ELSE s[i]]

\* re.sub of a negated character class by '': the characters of the class stay
KeepChars(s, class) == SelectSeq(s, LAMBDA c : c \in class)

\* str.replace(' ', '_')
SpacesToUnderscores(s) == [i \in 1..Len(s) |-> IF s[i] = " " THEN "_" ELSE s[i]]

\* re.sub(r'\s+', '_', s): every run of whitespace becomes one underscore
RECURSIVE WhitespaceRunsToUnderscore(_)
WhitespaceRunsToUnderscore(s) ==
    IF s = <<>> THEN <<>>
    ELSE IF Head(s) \in SpaceChars
    THEN IF Len(s) > 1 /\ s[2] \in SpaceChars
         THEN WhitespaceRunsToUnderscore(Tail(s))
         ELSE <<"_">> \o WhitespaceRunsToUnderscore(Tail(s))
    ELSE <<Head(s)>> \o WhitespaceRunsToUnderscore(Tail(s))

\* re.sub(r'_+', '_', s)
RECURSIVE CollapseUnderscores(_)
CollapseUnderscores(s) ==
    IF Len(s) < 2 THEN s
    ELSE IF s[1] = "_" /\ s[2] = "_" THEN CollapseUnderscores(Tail(s))
    ELSE <<Head(s)>> \o CollapseUnderscores(Tail(s))

\* str.strip(chars), str.strip() with chars the whitespace
RECURSIVE StripChars(_, _)
StripChars(s, chars) ==
    IF s = <<>> THEN <<>>
    ELSE IF Head(s) \in chars THEN StripChars(Tail(s), chars)
    ELSE IF s[Len(s)] \in chars THEN StripChars(SubSeq(s, 1, Len(s) - 1), chars)
    ELSE s

\* mvTagManager.normalize_name
TagManager_normalize_name(name) ==
    LET kept == KeepChars(lower(name), AsciiAlnum \cup SpaceChars)
    IN StripChars(CollapseUnderscores(SpacesToUnderscores(kept)), {"_"})

\* mvOrganizer.normalize_filename: [^\w\s] keeps the underscore
normalize_filename(text) ==
    LET kept == KeepChars(lower(text), AsciiAlnum \cup {"_"} \cup SpaceChars)
    IN StripChars(CollapseUnderscores(SpacesToUnderscores(kept)), {"_"})

\* musicvideo_from_csv.normalize_name
normalize_name(name) ==
    IF name = <<>> THEN Unknown
    ELSE LET spaced == WhitespaceRunsToUnderscore(lower(StripChars(name, SpaceChars)))
             kept == KeepChars(spaced, AsciiAlnum \cup {"_"})
             token == StripChars(CollapseUnderscores(kept), {"_"})
         IN IF token = <<>> THEN Unknown
            ELSE IF Len(token) > max_len THEN StripChars(SubSeq(token, 1, max_len), {"_"})
            ELSE token

\* a record whose artist is the text to normalize
InitNormalize ==
    /\ nfo \in {Document("nested", <<>>, <<ScalarChild("artist", name)>>, TRUE) :
                    name \in SeqsUpTo(NameChars, MaxNameLen)}
    /\ video = TRUE
    /\ clock = 1
    /\ tree = NoTree
    /\ pass = NoPass

\* every tool derives the artist directory of the record
NormalizePass ==
    LET artist == nfo.scalars[1].text IN
    /\ UNCHANGED tree
    /\ pass' = [NoPass EXCEPT !.op = "normalize", !.pre = nfo, !.preVideo = video,
                              !.names = [tag_manager |-> TagManager_normalize_name(artist),
                                         organizer |-> normalize_filename(artist),
                                         csv |-> normalize_name(artist)]]
    /\ UNCHANGED <<nfo, video, clock>>

NextNormalize == NormalizePass

SpecNormalize == InitNormalize /\ [][NextNormalize]_vars

(***************************************************************************)
(* rename_musicvideo_files: every record of a library directory is moved   *)
(* to <artist>/<title>.nfo and .mp4, the names taken from its NFO.  The    *)
(* directory has one level of subdirectories; a file is [dir, base, ext,   *)
(* doc], doc being what the file holds when it is an NFO.                  *)
(***************************************************************************)
MaxItems == 2        \* most NFO files in the directory

DirNames == {<<"a">>, <<"b">>}
BaseNames == {<<"a">>, <<"b">>}

NoDoc == [root |-> "none", artist |-> <<>>, title |-> <<>>]

\* the NFO files met: two records of one artist, one without artist, one with
\* another root element, one that is not XML
NfoDocs ==
    {[root |-> "musicvideo", artist |-> <<"A">>, title |-> <<"A">>],
     [root |-> "musicvideo", artist |-> <<"A">>, title |-> <<"b">>],
     [root |-> "musicvideo", artist |-> <<>>, title |-> <<"A">>],
     [root |-> "movie", artist |-> <<"A">>, title |-> <<"A">>],
     [root |-> "unparsable", artist |-> <<>>, title |-> <<>>]}

Paths == DirNames \X BaseNames

\* os.path.exists / os.path.isfile of dir/base.ext
exists(tr, dir, base, ext) ==
    \E f \in tr.files : f.dir = dir /\ f.base = base /\ f.ext = ext

normalize(text) == KeepChars(lower(SpacesToUnderscores(text)), AsciiAlnum \cup {"_"})

find_nfo_files(tr) == {f \in tr.files : f.ext = "nfo"}

\* the orders os.walk can list a set of files in: any order of the
\* directories and of the files of a directory, a directory at a time
WalkOrders(S) ==
    {o \in [1..Cardinality(S) -> S] :
        /\ \A i, j \in 1..Cardinality(S) : i # j => o[i] # o[j]
        /\ \A i, j, k \in 1..Cardinality(S) :
               i < j /\ j < k /\ o[i].dir = o[k].dir => o[j].dir = o[i].dir}

\* os.rmdir of every directory os.listdir finds empty
remove_empty_dirs(tr) ==
    [tr EXCEPT !.dirs = {d \in tr.dirs : \E f \in tr.files : f.dir = d}]

\* os.makedirs(new_dir, exist_ok=True), then shutil.move of the two files
MoveItem(tr, nfo_file, mp4_file, new_dir, new_base) ==
    [dirs |-> tr.dirs \cup {new_dir},
     files |-> (tr.files \ {nfo_file, mp4_file})
               \cup {[nfo_file EXCEPT !.dir = new_dir, !.base = new_base],
                     [mp4_file EXCEPT !.dir = new_dir, !.base = new_base]}]

SysExit(tr, code, i) == [tree |-> tr, exit |-> [code |-> code, at |-> i]]

\* the loop of main over nfo_files, from the i-th file on, and what follows it
RECURSIVE RenameLoop(_, _, _, _)
RenameLoop(tr, nfo_files, i, dry_run) ==
    IF i > Len(nfo_files)
    THEN [tree |-> remove_empty_dirs(tr), exit |-> [code |-> "none", at |-> 0]]
    ELSE LET nfo_file == nfo_files[i]
             root == nfo_file.doc
             new_dir == normalize(root.artist)
             new_base == normalize(root.title)
         IN IF root.root = "unparsable" THEN SysExit(tr, "parse", i)
            ELSE IF root.root # "musicvideo" THEN SysExit(tr, "root", i)
            ELSE IF root.artist = <<>> \/ root.title = <<>> THEN SysExit(tr, "fields", i)
            ELSE IF ~exists(tr, nfo_file.dir, nfo_file.base, "mp4") THEN SysExit(tr, "mp4", i)
            ELSE IF exists(tr, new_dir, new_base, "mp4") THEN SysExit(tr, "collision", i)
            ELSE IF exists(tr, new_dir, new_base, "nfo") THEN SysExit(tr, "collision", i)
            ELSE IF dry_run THEN RenameLoop(tr, nfo_files, i + 1, dry_run)
            ELSE LET mp4_file == CHOOSE f \in tr.files :
                                     /\ f.dir = nfo_file.dir
                                     /\ f.base = nfo_file.base
                                     /\ f.ext = "mp4"
                 IN RenameLoop(MoveItem(tr, nfo_file, mp4_file, new_dir, new_base),
                               nfo_files, i + 1, dry_run)

main(tr, nfo_files, dry_run) ==
    IF nfo_files = <<>> THEN SysExit(tr, "no_nfo", 0)
    ELSE RenameLoop(tr, nfo_files, 1, dry_run)

\* a directory of at most MaxItems NFO files, any .mp4 files, and the
\* subdirectories that hold them, with or without empty ones beside them
InitRename ==
    /\ \E P \in SUBSET Paths, Q \in SUBSET Paths, D \in SUBSET DirNames :
          /\ Cardinality(P) <= MaxItems
          /\ \A q \in P \cup Q : q[1] \in D
          /\ \E docs \in [P -> NfoDocs] :
                tree = [dirs |-> D,
                        files |-> {[dir |-> q[1], base |-> q[2], ext |-> "nfo",
                                    doc |-> docs[q]] : q \in P}
                                  \cup {[dir |-> q[1], base |-> q[2], ext |-> "mp4",
                                         doc |-> NoDoc] : q \in Q}]
    /\ nfo = NoNfo
    /\ video = FALSE
    /\ clock = 1
    /\ pass = NoPass

\* one run of the tool on the directory
RenamePass ==
    \E dry_run \in BOOLEAN, nfo_files \in WalkOrders(find_nfo_files(tree)) :
        LET run == main(tree, nfo_files, dry_run) IN
        /\ tree' = run.tree
        /\ pass' = [NoPass EXCEPT !.op = "rename", !.dry_run = dry_run, !.preTree = tree,
                                  !.order = nfo_files, !.exit = run.exit]
        /\ UNCHANGED <<nfo, video, clock>>

NextRename == RenamePass

SpecRename == InitRename /\ [][NextRename]_vars

(***************************************************************************)
(* Claims about get_most_recent_successful_url                             *)
(***************************************************************************)
\* the source entries of a history: the <url> elements that hold a URL
HasUrl(e) == strip(e.text) # <<>>

\* the instant an entry is stamped with; an entry without a parsable
\* timestamp is earlier than every timestamped one
TimeOf(e) == IF e.ts.kind \in {"naive", "utc"} THEN e.ts.t ELSE 0

NonFailed(h) == {i \in 1..Len(h) : HasUrl(h[i]) /\ ~h[i].failed}

\* C1: for every history the exporter returns the URL of a latest-stamped
\* entry among the entries that are not Failed (Failed entries are ignored
\* even when most recent, an entry without a parsable timestamp counts as
\* earliest), and it returns no URL exactly when there is no such entry.
C1_ResolveReturnsLatestNonFailed ==
    pass.op = "export" =>
        LET h == pass.pre.sources
            r == pass.result
        IN /\ ~r.raised
           /\ (r.url = NoText) <=> (NonFailed(h) = {})
           /\ NonFailed(h) # {} =>
                  \E i \in NonFailed(h) :
                      /\ r.url = strip(h[i].text)
                      /\ \A j \in NonFailed(h) : TimeOf(h[j]) <= TimeOf(h[i])

\* C8: after a driver has recorded a Failed attempt (stamped now) the
\* exporter resolves the history to what it resolved to before.
C8_FailedAttemptKeepsCurrent ==
    pass.op = "record_failed" =>
        get_most_recent_successful_url(nfo.sources)
            = get_most_recent_successful_url(pass.pre.sources)

\* a Failed attempt on U2, stamped later than every entry, was appended to a
\* history whose current source is U1
C8_Witness ==
    /\ pass.op = "record_failed"
    /\ pass.url = U2
    /\ nfo.sources[Len(nfo.sources)].failed
    /\ get_most_recent_successful_url(pass.pre.sources) = [raised |-> FALSE, url |-> U1]

(***************************************************************************)
(* Claims about clean_sources.  A source entry is a <url> element that     *)
(* holds a URL; its URL value is its text with surrounding whitespace      *)
(* removed.                                                                *)
(***************************************************************************)
UrlsOf(h) == {strip(h[i].text) : i \in 1..Len(h)} \ {NoText}

EntriesWith(h, u) == {i \in 1..Len(h) : strip(h[i].text) = u}

\* the cleaner has parsed the file, cleaned it and written it back
Cleaned == pass.op = "clean" /\ ~pass.dry_run /\ ET_parse_ok(pass.pre)

\* C2: when a history holds two or more entries with the same trimmed URL,
\* at least one of them Failed, then after the clean pass exactly one entry
\* with that URL remains and it carries failed=true.
C2_DuplicateKeepsFailed ==
    Cleaned =>
        \A u \in UrlsOf(pass.pre.sources) :
            LET before == EntriesWith(pass.pre.sources, u)
                after == EntriesWith(nfo.sources, u)
            IN (Cardinality(before) >= 2 /\ \E i \in before : pass.pre.sources[i].failed)
                   => /\ Cardinality(after) = 1
                      /\ \A k \in after : nfo.sources[k].failed

\* a Failed entry followed by a non-Failed entry with the same URL was cleaned
C2_Witness ==
    /\ Cleaned
    /\ \E i, j \in 1..Len(pass.pre.sources) :
           /\ i < j
           /\ HasUrl(pass.pre.sources[i])
           /\ strip(pass.pre.sources[i].text) = strip(pass.pre.sources[j].text)
           /\ pass.pre.sources[i].failed
           /\ ~pass.pre.sources[j].failed
    /\ pass.sources_removed > 0

\* e outranks f: Failed over non-Failed, then Searched over plain
Outranks(e, f) ==
    \/ e.failed /\ ~f.failed
    \/ e.failed = f.failed /\ e.search /\ ~f.search

\* the first entry of a group that no entry of the group outranks
FirstOfBestRank(h, group) ==
    Min({i \in group : \A j \in group : ~Outranks(h[j], h[i])})

\* the survivor of a group by what the loop does: the last Failed entry if
\* there is one, else the last Searched-flagged entry if there is one, else
\* the first entry
LastOfBestClass(h, group) ==
    IF \E i \in group : h[i].failed THEN Max({i \in group : h[i].failed})
    ELSE IF \E i \in group : h[i].search THEN Max({i \in group : h[i].search})
    ELSE Min(group)

\* the entries of the written file with URL u are exactly the entry at
\* position i of the file that was read (entries are told apart by ts)
SurvivorIs(u, i) ==
    /\ EntriesWith(nfo.sources, u) # {}
    /\ \A k \in EntriesWith(nfo.sources, u) : nfo.sources[k].ts = pass.pre.sources[i].ts

\* C3 as stated: the survivor of every group of same-URL entries is the
\* first entry, in document order, of the best rank (Failed over
\* non-Failed, then Searched-flagged over plain).
C3_SurvivorIsFirstOfBestRank ==
    Cleaned =>
        \A u \in UrlsOf(pass.pre.sources) :
            SurvivorIs(u, FirstOfBestRank(pass.pre.sources, EntriesWith(pass.pre.sources, u)))

\* C3 as amended: the survivor of every group of same-URL entries is the
\* last Failed entry of the group if it has one (whatever the search
\* flags), otherwise the last Searched-flagged entry if it has one,
\* otherwise the first entry; all other members of the group are discarded.
C3_SurvivorIsLastOfBestClass ==
    Cleaned =>
        \A u \in UrlsOf(pass.pre.sources) :
            /\ SurvivorIs(u, LastOfBestClass(pass.pre.sources, EntriesWith(pass.pre.sources, u)))
            /\ Cardinality(EntriesWith(nfo.sources, u)) = 1

\* a group of two Failed entries, the first of them Searched-flagged, was
\* cleaned and the second one survived
C3_Witness ==
    /\ Cleaned
    /\ Len(pass.pre.sources) >= 2
    /\ LET h == pass.pre.sources IN
       /\ strip(h[1].text) = U1 /\ strip(h[2].text) = U1
       /\ h[1].failed /\ h[1].search
       /\ h[2].failed /\ ~h[2].search
       /\ SurvivorIs(U1, 2)

\* C4: after a clean pass at most one entry is retained per distinct URL
\* value, URL text being compared after trimming whitespace.
C4_OneEntryPerUrl ==
    Cleaned =>
        \A u \in UrlsOf(nfo.sources) : Cardinality(EntriesWith(nfo.sources, u)) <= 1

\* two entries whose texts differ only by surrounding whitespace were cleaned
C4_Witness ==
    /\ Cleaned
    /\ \E i, j \in 1..Len(pass.pre.sources) :
           /\ pass.pre.sources[i].text = U1
           /\ pass.pre.sources[j].text = U1Padded
    /\ Cardinality(EntriesWith(nfo.sources, U1)) = 1

\* C5: a clean pass run right after a clean pass that wrote the file
\* reports nothing removed and was_modified = false, and leaves the file as
\* the first pass left it.
C5_CleanIdempotent ==
    (pass.op = "clean" /\ pass.prev.op = "clean" /\ ~pass.prev.dry_run) =>
        /\ ~pass.was_modified
        /\ pass.sources_removed = 0
        /\ pass.attributes_removed = 0
        /\ nfo = pass.pre

\* a second clean pass has run after a first one that removed duplicates and attributes
C5_Witness ==
    /\ pass.op = "clean"
    /\ pass.prev.op = "clean"
    /\ ~pass.prev.dry_run
    /\ pass.prev.sources_removed > 0
    /\ pass.prev.attributes_removed > 0

\* what a clean pass may not change of an entry
Essential(e) == [text |-> e.text, ts |-> e.ts, failed |-> e.failed, search |-> e.search]

EssentialOf(h) == [i \in 1..Len(h) |-> Essential(h[i])]

\* a is b with some elements left out
RECURSIVE IsSubsequence(_, _)
IsSubsequence(a, b) ==
    IF a = <<>> THEN TRUE
    ELSE IF b = <<>> THEN FALSE
    ELSE IF Head(a) = Head(b) THEN IsSubsequence(Tail(a), Tail(b))
    ELSE IsSubsequence(a, Tail(b))

DriverPass == pass.op \in {"organizer", "replacer", "csv"}

\* the drivers that are given a candidate URL by a row
RowPass == pass.op \in {"organizer", "csv"}

\* the download collaborator was run on the row's URL while the video file existed
Refetched ==
    /\ pass.preVideo
    /\ \E k \in 1..Len(pass.handed) : pass.handed[k].url = pass.url

\* needs_redownload(candidateUrl) of the record the pass started from
NeedsRedownload ==
    /\ pass.preVideo
    /\ pass.url # NoText
    /\ get_most_recent_successful_url(pass.pre.sources) # [raised |-> FALSE, url |-> pass.url]

\* the row's URL is empty or one both drivers accept as a URL
AcceptedUrl == pass.url = NoText \/ (is_valid_youtube_url(pass.url) /\ url_re_match(pass.url))

\* C7 as stated: a driver re-downloads an existing record if and only if the
\* video file exists, the candidate URL is non-empty and the candidate
\* differs from resolve_current() of the record's history.
C7_RefetchIffNeedsRedownload ==
    (RowPass /\ pass.fields /\ AcceptedUrl) => (Refetched <=> NeedsRedownload)

\* the rule the two drivers follow
RefetchRule ==
    IF pass.op = "organizer"
    THEN /\ pass.fields
         /\ pass.preVideo
         /\ is_valid_youtube_url(pass.url)
         /\ \/ pass.force
            \/ /\ pass.overwrite
               /\ ET_parse_ok(pass.pre)
               /\ pass.url \notin {pass.pre.sources[i].text : i \in 1..Len(pass.pre.sources)}
    ELSE /\ pass.preVideo
         /\ url_re_match(pass.url)
         /\ pass.overwrite
         /\ pass.pre.shape # "absent"
         /\ \/ ~ET_parse_ok(pass.pre)
            \/ \A i \in 1..Len(pass.pre.sources) : strip(pass.pre.sources[i].text) # pass.url

\* C7 as amended: a driver runs the download collaborator on the row's URL
\* over an existing video file if and only if the URL is valid and
\* (mvOrganizer) force_download is set, or overwrite is set and the NFO
\* parses and holds no source whose text is the URL, or (musicvideo_from_csv)
\* overwrite is set and the NFO exists and, when it parses, holds no source
\* whose trimmed text is the URL.
C7_RefetchFollowsMembershipAndOverwrite ==
    RowPass => (Refetched <=> RefetchRule)

\* mvOrganizer, without force_download, re-downloaded over an existing
\* video a URL that resolve_current() already named
C7_Witness ==
    /\ pass.op = "organizer"
    /\ ~pass.force
    /\ Refetched
    /\ get_most_recent_successful_url(pass.pre.sources) = [raised |-> FALSE, url |-> pass.url]

\* the NFO on disk holds an entry for URL u
Recorded(u) ==
    /\ nfo.shape # "absent"
    /\ \E i \in 1..Len(nfo.sources) : strip(nfo.sources[i].text) = u

\* C9: after a driver pass every URL that was handed to the download
\* collaborator during the pass has an entry in the record's NFO, whether
\* the download succeeded or failed.
C9_EveryAttemptRecorded ==
    DriverPass => \A k \in 1..Len(pass.handed) : Recorded(pass.handed[k].url)

\* C10: every source entry the NFO held before a driver pass is still in the
\* NFO after it, with the same url, ts, failed and search values.
C10_HistoryNeverLost ==
    DriverPass =>
        \A i \in 1..Len(pass.pre.sources) :
            HasUrl(pass.pre.sources[i]) =>
                /\ nfo.shape # "absent"
                /\ \E j \in 1..Len(nfo.sources) :
                       /\ strip(nfo.sources[j].text) = strip(pass.pre.sources[i].text)
                       /\ nfo.sources[j].ts = pass.pre.sources[i].ts
                       /\ nfo.sources[j].failed = pass.pre.sources[i].failed
                       /\ nfo.sources[j].search = pass.pre.sources[i].search

(***************************************************************************)
(* Claims about appending                                                  *)
(***************************************************************************)
Appended == pass.op \in {"append", "kodi_write"}

\* C11 as stated: an append leaves the history it found, entry for entry
\* with url text, ts, failed, search, index and channel unchanged, followed
\* by exactly one new entry that holds the appended URL, whether or not the
\* history already held that URL.
C11_AppendAddsOneKeepsRest ==
    Appended =>
        /\ Len(nfo.sources) = Len(pass.pre.sources) + 1
        /\ SubSeq(nfo.sources, 1, Len(pass.pre.sources)) = pass.pre.sources
        /\ nfo.sources[Len(nfo.sources)].text = pass.url

\* the entries write_kodi_nfo reads back from a file
ReadBack(file) == IF ET_parse_ok(file) THEN SelectSeq(file.sources, HasUrl) ELSE <<>>

\* what an append may not change of an entry it keeps
Provenance(e) ==
    [text |-> strip(e.text), ts |-> e.ts, failed |-> e.failed, search |-> e.search,
     channel |-> e.channel]

\* C11 as amended: add_source_to_nfo (mvOrganizer, mvReplacer) adds exactly
\* one entry at the end, whether or not the URL is already there, and
\* leaves every pre-existing entry unchanged; write_kodi_nfo keeps, in
\* order, the entries it reads back (those with a non-empty trimmed text,
\* none when the file does not parse) with their trimmed text, ts, failed,
\* search and channel, numbers every entry's index by position, adds its
\* extra sources, and adds the row's URL at the end only when no entry read
\* back holds it.
C11_AppendKeepsProvenance ==
    /\ pass.op = "append" =>
           /\ Len(nfo.sources) = Len(pass.pre.sources) + 1
           /\ SubSeq(nfo.sources, 1, Len(pass.pre.sources)) = pass.pre.sources
           /\ nfo.sources[Len(nfo.sources)].text = pass.url
    /\ pass.op = "kodi_write" =>
           LET read == ReadBack(pass.pre)
               novel == \A i \in 1..Len(read) : strip(read[i].text) # pass.url
           IN /\ Len(nfo.sources) = Len(read) + pass.extra + (IF novel THEN 1 ELSE 0)
              /\ \A i \in 1..Len(read) : Provenance(nfo.sources[i]) = Provenance(read[i])
              /\ \A i \in 1..Len(nfo.sources) : nfo.sources[i].index = <<i - 1>>
              /\ novel => /\ nfo.sources[Len(nfo.sources)].text = pass.url
                          /\ ~nfo.sources[Len(nfo.sources)].failed

\* a URL the history held as a non-Failed entry was appended again as Failed
C11_Witness ==
    /\ pass.op = "append"
    /\ \E i \in 1..Len(pass.pre.sources) :
           pass.pre.sources[i].text = pass.url /\ ~pass.pre.sources[i].failed
    /\ nfo.sources[Len(nfo.sources)].failed
    /\ Len(nfo.sources) = Len(pass.pre.sources) + 1

(***************************************************************************)
(* Claims about the membership test                                        *)
(***************************************************************************)
\* contains(url): some entry's trimmed URL text equals the trimmed candidate
Contains(h, u) == \E i \in 1..Len(h) : HasUrl(h[i]) /\ strip(h[i].text) = strip(u)

\* C12: for the history a driver pass read and the candidate URL of its
\* row, the membership test of every driver (get_existing_sources of
\* mvOrganizer and mvReplacer, get_prior_urls of musicvideo_from_csv) is
\* true exactly when some entry's trimmed URL text equals the trimmed
\* candidate, so that all drivers give the same answer.
C12_ContainsIsTrimmedExact ==
    (RowPass /\ pass.url # NoText /\ ET_parse_ok(pass.pre)) =>
        /\ (pass.url \in get_existing_sources(pass.pre.sources))
               <=> Contains(pass.pre.sources, pass.url)
        /\ (pass.url \in get_prior_urls(pass.pre))
               <=> Contains(pass.pre.sources, pass.url)

(***************************************************************************)
(* Claims about errors                                                     *)
(***************************************************************************)
\* C13: the exporter returns a result for every history it is run on,
\* whatever mix of missing, unparsable, timezone-less and Z-suffixed ts and
\* whatever URL text (empty included) its entries hold; it never raises.
C13_ResolveNeverRaises ==
    pass.op = "export" => ~pass.result.raised

\* the NFO on disk holds a Failed entry for URL u
RecordedFailed(u) ==
    /\ nfo.shape # "absent"
    /\ \E i \in 1..Len(nfo.sources) : strip(nfo.sources[i].text) = u /\ nfo.sources[i].failed

\* C14: after a driver pass every URL whose download failed (a timeout
\* included) has a Failed entry in the record's NFO, and no URL was handed
\* to the download collaborator more than once during the pass.
C14_FailedRecordedNeverRetried ==
    DriverPass =>
        /\ \A k \in 1..Len(pass.handed) :
               ~pass.handed[k].ok => RecordedFailed(pass.handed[k].url)
        /\ \A j, k \in 1..Len(pass.handed) :
               pass.handed[j].url = pass.handed[k].url => j = k

\* the pass found an NFO file that ET.parse rejects
ReadMalformed == pass.op # "none" /\ pass.pre.shape # "absent" /\ ~ET_parse_ok(pass.pre)

\* C15: a tool pass over a record whose NFO does not parse leaves the
\* content of that file as it found it.
C15_MalformedNfoSkipped ==
    ReadMalformed => nfo = pass.pre

\* the pass left the record's files alone and ran no download
NothingDone == nfo = pass.pre /\ video = pass.preVideo /\ pass.handed = <<>>

\* C16 as stated: a driver pass over a row or NFO without artist or title
\* creates or modifies neither the NFO nor the video file and attempts no
\* download.
C16_MissingFieldRejected ==
    (DriverPass /\ ~pass.fields) => NothingDone

\* C16 as amended: a pass of mvOrganizer or mvReplacer over a row or NFO
\* without artist or title creates or modifies neither the NFO nor the
\* video file and attempts no download (musicvideo_from_csv rejects no row
\* for a missing artist or title).
C16_OrganizerReplacerRejectMissingField ==
    (pass.op \in {"organizer", "replacer"} /\ ~pass.fields) => NothingDone

\* mvOrganizer, with force_download, was given a row without artist or title
\* that holds a valid URL the NFO of the record does not hold
C16_Witness ==
    /\ pass.op = "organizer"
    /\ ~pass.fields
    /\ pass.force
    /\ is_valid_youtube_url(pass.url)
    /\ ~Contains(pass.pre.sources, pass.url)
    /\ NothingDone

(***************************************************************************)
(* Claims about the video file                                             *)
(***************************************************************************)
\* the pass ran no download and the video file is still there
VideoUntouched == pass.handed = <<>> /\ video

\* C17 as stated: when the video file exists and neither overwrite nor
\* force_download is set, a pass of any driver runs no download for the
\* record and leaves the video file unchanged.
C17_ExistingVideoKeptWithoutOverwrite ==
    (DriverPass /\ pass.preVideo /\ ~pass.overwrite /\ ~pass.force) => VideoUntouched

\* C17 as amended: when the video file exists and neither overwrite nor
\* force_download is set, a pass of mvOrganizer or musicvideo_from_csv runs
\* no download for the record and leaves the video file unchanged
\* (mvReplacer has no such flag and always downloads over the video).
C17_RowDriversKeepExistingVideo ==
    (RowPass /\ pass.preVideo /\ ~pass.overwrite /\ ~pass.force) => VideoUntouched

\* musicvideo_from_csv, without overwrite, was given a URL the NFO of an
\* existing video does not hold, and fetched nothing
C17_Witness ==
    /\ pass.op = "csv"
    /\ pass.preVideo
    /\ ~pass.overwrite
    /\ url_re_match(pass.url)
    /\ pass.pre.shape # "absent"
    /\ pass.url \notin get_prior_urls(pass.pre)
    /\ VideoUntouched

(***************************************************************************)
(* Claims about writing                                                    *)
(***************************************************************************)
\* C18: when the process is interrupted while a tool is writing an NFO, the
\* file on disk holds the complete previous content or the complete new
\* content, never an empty or partial document.
C18_InterruptedWriteConsistent ==
    pass.op = "interrupted" => (nfo = pass.pre \/ nfo = pass.pending)

\* a driver pass has just written an NFO that holds at least one source entry
WroteSources == DriverPass /\ nfo # pass.pre /\ nfo.shape # "absent" /\ UrlsOf(nfo.sources) # {}

\* C19: the NFO a driver has just written, holding at least one source
\* entry, is read back by the readers of the next pass as the record that
\* was written: read_existing_nfo finds the root with the same sequence of
\* entries (url, outcome flags, timestamps) and get_prior_urls returns the
\* URLs of these entries.
C19_WrittenNfoReadsBack ==
    WroteSources =>
        /\ read_existing_nfo(nfo).found
        /\ read_existing_nfo(nfo).sources = nfo.sources
        /\ get_prior_urls(nfo) = UrlsOf(nfo.sources)

(***************************************************************************)
(* Claims about the migration                                              *)
(***************************************************************************)
\* the converter was run, not as a dry run, on a document with <sources>
\* as a sibling of <musicvideo>
ConvertedSibling == pass.op = "convert" /\ ~pass.dry_run /\ pass.pre.shape = "sibling"

NonEmptyScalars(scalars) == SelectSeq(scalars, LAMBDA e : ~is_empty_element(e))

\* C20: run on a document whose <sources> is a sibling of <musicvideo>, the
\* converter detects it and leaves a single-root document whose <sources>
\* holds the entries of the sibling element, in the same order with the
\* same text and attributes, and whose non-empty scalar children are the
\* ones the document had.
C20_SiblingSourcesSpliced ==
    ConvertedSibling =>
        /\ pass.was_modified
        /\ ET_parse_ok(nfo)
        /\ nfo.sources = pass.pre.sources
        /\ NonEmptyScalars(nfo.scalars) = NonEmptyScalars(pass.pre.scalars)

\* a two-root document with two entries that differ in their attributes, a
\* title and an empty studio was converted
C20_Witness ==
    /\ ConvertedSibling
    /\ Len(pass.pre.sources) = 2
    /\ pass.pre.sources[1].failed /\ ~pass.pre.sources[2].failed
    /\ pass.pre.sources[1].index = <<0>>
    /\ pass.pre.scalars = <<ScalarChild("title", <<"x">>), ScalarChild("studio", NoText)>>
    /\ Len(nfo.scalars) = 1
    /\ Len(nfo.sources) = 2

\* the migration was run on a <source> container that holds bare URL
\* entries, each with a URL, and nothing else
MigratedBare ==
    /\ pass.op = "migrate"
    /\ pass.pre.shape = "legacy"
    /\ pass.pre.sources # <<>>
    /\ \A i \in 1..Len(pass.pre.sources) :
           HasUrl(pass.pre.sources[i]) /\ pass.pre.sources[i].ts = NoTs

\* the trimmed texts of a history, in order
TextsOf(h) == [i \in 1..Len(h) |-> strip(h[i].text)]

\* s without the repetitions of an element already met
RECURSIVE FirstOccurrences(_, _)
FirstOccurrences(s, seen) ==
    IF s = <<>> THEN <<>>
    ELSE IF Head(s) \in seen THEN FirstOccurrences(Tail(s), seen)
    ELSE <<Head(s)>> \o FirstOccurrences(Tail(s), seen \cup {Head(s)})

\* C21: the migration of a document whose <source> container holds bare URL
\* entries leaves a <sources> history with exactly those URLs, one entry
\* each, in document order, none Failed, each numbered by its position.
C21_BareSourceMigrated ==
    MigratedBare =>
        /\ nfo.shape = "nested"
        /\ TextsOf(nfo.sources) = FirstOccurrences(TextsOf(pass.pre.sources), {})
        /\ \A i \in 1..Len(nfo.sources) :
               ~nfo.sources[i].failed /\ nfo.sources[i].index = <<i - 1>>

\* C22: after a clean pass every entry of the history has a non-empty
\* trimmed URL text, the entries without one having been dropped.
C22_NoEmptyUrlRetained ==
    Cleaned => \A i \in 1..Len(nfo.sources) : HasUrl(nfo.sources[i])

(***************************************************************************)
(* Claims about names                                                      *)
(***************************************************************************)
\* C24: for every artist or title text, mvTagManager.normalize_name,
\* mvOrganizer.normalize_filename and musicvideo_from_csv.normalize_name
\* return the same token.
C24_NormalizersAgree ==
    pass.op = "normalize" =>
        /\ pass.names.tag_manager = pass.names.organizer
        /\ pass.names.organizer = pass.names.csv

(***************************************************************************)
(* Claims about the order of the entries                                   *)
(***************************************************************************)
Orderings(n) == {p \in [1..n -> 1..n] : \A i, j \in 1..n : i # j => p[i] # p[j]}

Permuted(s, p) == [i \in 1..Len(s) |-> s[p[i]]]

\* C25: the URL the exporter resolved for a history is the URL it resolves
\* for every permutation of the same entries (same url, ts and failed
\* values): the result does not depend on the order of the elements.
C25_ResolveIgnoresOrder ==
    pass.op = "export" =>
        \A p \in Orderings(Len(pass.pre.sources)) :
            get_most_recent_successful_url(Permuted(pass.pre.sources, p)) = pass.result

\* two non-failed entries of different URLs and equal timestamps, the first
\* in document order not being the one resolved
C25_Witness ==
    /\ pass.op = "export"
    /\ ~pass.result.raised
    /\ Len(pass.pre.sources) >= 2
    /\ IsSuccessful(pass.pre.sources[1])
    /\ IsSuccessful(pass.pre.sources[2])
    /\ ParseTs(pass.pre.sources[1].ts) = ParseTs(pass.pre.sources[2].ts)
    /\ strip(pass.pre.sources[1].text) # strip(pass.pre.sources[2].text)
    /\ pass.result.url = strip(pass.pre.sources[2].text)

(***************************************************************************)
(* Claims about rename_musicvideo_files                                    *)
(***************************************************************************)
\* where the record of an NFO file belongs
Target(f, ext) ==
    [dir |-> normalize(f.doc.artist), base |-> normalize(f.doc.title), ext |-> ext,
     doc |-> IF ext = "nfo" THEN f.doc ELSE NoDoc]

\* the record of NFO file f can be moved in tree tr: it is a music video with
\* artist, title and video, and nothing is at the paths it belongs to
Movable(tr, f) ==
    /\ f.doc.root = "musicvideo"
    /\ f.doc.artist # <<>>
    /\ f.doc.title # <<>>
    /\ exists(tr, f.dir, f.base, "mp4")
    /\ ~exists(tr, Target(f, "nfo").dir, Target(f, "nfo").base, "mp4")
    /\ ~exists(tr, Target(f, "nfo").dir, Target(f, "nfo").base, "nfo")

\* C23: when a run finds the target .mp4 or .nfo path of an item taken, the
\* files of that item stay where they are and every other item of the batch
\* is still processed: each other record that can be moved is at its target.
C23_CollisionAbortsOnlyThatItem ==
    (pass.op = "rename" /\ ~pass.dry_run /\ pass.exit.code = "collision") =>
        LET hit == pass.order[pass.exit.at] IN
        /\ hit \in tree.files
        /\ exists(tree, hit.dir, hit.base, "mp4")
        /\ \A i \in 1..Len(pass.order) :
               LET f == pass.order[i] IN
               (i # pass.exit.at /\ Movable(pass.preTree, f)
                    /\ Target(f, "nfo") # Target(hit, "nfo"))
                   => Target(f, "nfo") \in tree.files /\ Target(f, "mp4") \in tree.files

\* C26: after a run with --dry-run the directory tree (the files, where they
\* are, and the directories, the empty ones included) is the tree before it.
C26_DryRunChangesNothing ==
    (pass.op = "rename" /\ pass.dry_run) => tree = pass.preTree

(***************************************************************************)
(* Claims about the search for another source                              *)
(***************************************************************************)
\* C27: mvReplacer downloads only a source the history does not hold.  When
\* the search finds nothing or a URL the history contains, nothing is
\* downloaded, the NFO and the video are as before and the item is counted
\* as skipped; otherwise the URL found is the one download of the pass and
\* one entry for it, search=true and failed exactly when the download
\* failed, is appended to the history.
C27_ReplacerOnlyUniqueSource ==
    (pass.op = "replacer" /\ pass.fields /\ ET_parse_ok(pass.pre)) =>
        IF pass.found = NoText \/ Contains(pass.pre.sources, pass.found)
        THEN /\ pass.handed = <<>>
             /\ nfo = pass.pre
             /\ video = pass.preVideo
             /\ pass.stat = "skipped"
        ELSE ~pass.dry_run =>
                /\ Len(pass.handed) = 1
                /\ pass.handed[1].url = pass.found
                /\ Len(nfo.sources) = Len(pass.pre.sources) + 1
                /\ SubSeq(nfo.sources, 1, Len(pass.pre.sources)) = pass.pre.sources
                /\ LET e == nfo.sources[Len(nfo.sources)] IN
                       /\ e.text = pass.found
                       /\ e.search
                       /\ e.failed = ~pass.handed[1].ok

\* the entries of the NFO on disk that the pass wrote: those the history
\* it started from did not hold
AddedEntries ==
    IF nfo.shape = "absent" THEN {}
    ELSE {e \in {nfo.sources[i] : i \in 1..Len(nfo.sources)} :
             ~\E j \in 1..Len(pass.pre.sources) :
                 /\ strip(pass.pre.sources[j].text) = strip(e.text)
                 /\ pass.pre.sources[j].ts = e.ts
                 /\ pass.pre.sources[j].failed = e.failed
                 /\ pass.pre.sources[j].search = e.search}

\* the download collaborator was run on the row's URL, first of all
ProvidedTried == pass.handed # <<>> /\ pass.handed[1].url = pass.url

\* the attempts of the pass on a URL that came from the search
SearchAttempts ==
    IF ~pass.searched THEN {}
    ELSE {k \in 1..Len(pass.handed) : k > 1 \/ ~ProvidedTried}

\* C28: in mvOrganizer.process_video and musicvideo_from_csv.process_row the
\* search collaborator is called only when no_search is off and the download
\* of the row's URL has failed in this pass or (mvOrganizer) the row gave no
\* valid URL; no download had succeeded before it was called; and the entries
\* the pass writes for the URL it returned carry search=true.
C28_SearchIsFallbackOnly ==
    (RowPass /\ pass.searched) =>
        /\ ~pass.no_search
        /\ \/ ProvidedTried /\ ~pass.handed[1].ok
           \/ pass.op = "organizer" /\ ~is_valid_youtube_url(pass.url) /\ ~ProvidedTried
        /\ \A k \in 1..Len(pass.handed) : pass.handed[k].ok => k \in SearchAttempts
        /\ \A k \in SearchAttempts :
               LET written == {e \in AddedEntries : strip(e.text) = pass.handed[k].url} IN
               /\ pass.handed[k].url # pass.url => \A e \in written : e.search
               /\ written # {} => \E e \in written : e.search

\* the row's URL failed, the search gave another one, its download
\* succeeded and the entry written for it says search=true
C28_Witness ==
    /\ RowPass
    /\ pass.searched
    /\ Len(pass.handed) = 2
    /\ ~pass.handed[1].ok
    /\ pass.handed[2].ok
    /\ pass.handed[2].url # pass.url
    /\ \E e \in AddedEntries : strip(e.text) = pass.handed[2].url /\ e.search

(***************************************************************************)
(* Claims about what a pass leaves in the history                          *)
(***************************************************************************)
\* the attempts of the pass that succeeded
Succeeded == {k \in 1..Len(pass.handed) : pass.handed[k].ok}

\* C29: after a driver pass in which a download succeeded, the exporter's
\* get_most_recent_successful_url, run on the history the NFO on disk gives
\* back, returns the URL of the last download that succeeded, also when the
\* history held that URL before the pass and when another URL had failed
\* first.
C29_HistoryNamesActualSource ==
    (DriverPass /\ Succeeded # {}) =>
        get_most_recent_successful_url(ReadBack(nfo))
            = [raised |-> FALSE, url |-> pass.handed[Max(Succeeded)].url]

\* C30: no driver pass writes an entry without failed=true for a URL whose
\* every download attempt in the pass failed.
C30_FailedNeverRecordedGood ==
    DriverPass =>
        \A e \in AddedEntries :
            LET tries == {k \in 1..Len(pass.handed) : pass.handed[k].url = strip(e.text)} IN
            (tries # {} /\ \A k \in tries : ~pass.handed[k].ok) => e.failed

====
